---- MODULE Spec2Model ----
(***************************************************************************)
(* Model of the product scraper: price normalisation and the extraction    *)
(* strategies (scraper/extract.py), link discovery (scraper/crawler.py)    *)
(* and the orchestrator with its command-line entry point (scraper/cli.py).*)
(*                                                                         *)
(* Text is a sequence of one-character strings, so that strip, replace,    *)
(* count, rfind and the regular-expression search act on characters.       *)
(* An optional value is a sequence of length at most one: None is << >>    *)
(* and a present value v is << v >>.                                       *)
(***************************************************************************)
EXTENDS Integers, Sequences, FiniteSets, TLC

VARIABLES
    pc,         \* position of the operation under study
    text,       \* _normalize_price_to_string: the argument
    price,      \* _normalize_price_to_string: the value returned
    renorm,     \* the value returned for the returned string
    url,        \* extract_product: the url argument
    html,       \* extract_product, discover_product_links: the parsed page
    product,    \* extract_product: the value returned
    page_url,   \* discover_product_links: the page_url argument
    max_links,  \* discover_product_links: the max_links argument
    is_product_page,    \* discover_product_links: the flag returned
    product_links,      \* discover_product_links: the list returned
    limit,      \* scrape_to_excel: the limit argument
    final_url,  \* scrape_to_excel: the URL the seed fetch ended at
    total,      \* scrape_to_excel: min(limit, len(product_links))
    idx_raw,    \* scrape_to_excel: the position of the loop in product_links
    seen,       \* scrape_to_excel: the links the loop has met
    processed,  \* scrape_to_excel: the links fetched and extracted
    products,   \* scrape_to_excel: the records collected
    fetched,    \* the product pages requested after the seed page, in order
    warnings,   \* the warn_failed lines written to stderr
    errors,     \* the errors raised by a fetch or extraction in the loop
    interrupt_at,   \* where the user interrupted the run, "" if nowhere
    writer,     \* write_products_to_excel: "idle", "writing", "done", "failed"
    saved,      \* the rows saved to out_path, None before the save
    exit_code,  \* the status main returned, None while it runs
    out_path,       \* write_products_to_excel: the out_path argument
    template_path,  \* write_products_to_excel: the template_path argument
    headers,        \* write_products_to_excel: the headers argument
    files,      \* the workbook file at each path, None where no file exists
    opened      \* what the call opened: (sheet, is_new_file), None before it

priceVars == <<text, price, renorm>>
extractVars == <<url, product>>
discoverVars == <<page_url, max_links>>
foundVars == <<is_product_page, product_links>>
runVars == <<limit, final_url, total, idx_raw, seen, processed, products, fetched,
             warnings, errors, interrupt_at, writer, saved, exit_code>>
writerVars == <<out_path, template_path, headers, files, opened>>
vars == <<pc, html, priceVars, extractVars, discoverVars, foundVars, runVars,
          writerVars>>

(***************************************************************************)
(* Optional values and Python truthiness                                   *)
(***************************************************************************)
None == << >>
Some(v) == << v >>
IsNone(o) == Len(o) = 0
Val(o) == o[1]
\* `x or y` and `if x` on an Optional[str]: None and "" are both falsy
Truthy(o) == Len(o) = 1 /\ Len(o[1]) > 0

(***************************************************************************)
(* Characters                                                              *)
(***************************************************************************)
NBSP == "nbsp"                       \* U+00A0 as one character
TAB == "tab"                         \* U+0009 as one character
Digits == {"0", "1", "2", "3", "4", "5", "6", "7", "8", "9"}
\* what \s matches among the characters of the model
Whitespace == {" ", TAB, NBSP}

(***************************************************************************)
(* str methods                                                             *)
(***************************************************************************)
RECURSIVE Replace(_, _, _)
\* s.replace(c, by) for a one-character c and a text by
Replace(s, c, by) ==
    IF s = << >> THEN << >>
    ELSE (IF Head(s) = c THEN by ELSE << Head(s) >>) \o Replace(Tail(s), c, by)

\* s.count(c)
Count(s, c) == Cardinality({i \in 1..Len(s) : s[i] = c})

\* c in s
Contains(s, c) == \E i \in 1..Len(s) : s[i] = c

\* s.rfind(c), as a 1-based position, 0 when c is absent
RFind(s, c) ==
    IF Contains(s, c)
    THEN CHOOSE i \in 1..Len(s) : s[i] = c /\ \A j \in (i+1)..Len(s) : s[j] # c
    ELSE 0

RECURSIVE LStrip(_)
LStrip(s) ==
    IF s # << >> /\ Head(s) \in Whitespace THEN LStrip(Tail(s)) ELSE s

RECURSIVE RStrip(_)
RStrip(s) ==
    IF s # << >> /\ s[Len(s)] \in Whitespace
    THEN RStrip(SubSeq(s, 1, Len(s) - 1)) ELSE s

\* s.strip()
Strip(s) == RStrip(LStrip(s))

(***************************************************************************)
(* PRICE_RE = (?<!\d)(\d{1,3}([\s \.,]\d{3})*|\d+)([\.,]\d{2})?       *)
(***************************************************************************)
GroupSeparators == Whitespace \cup {".", ","}
DecimalSeparators == {".", ","}

\* s[i .. i+n-1] exists and is all digits
DigitRun(s, i, n) == i + n - 1 <= Len(s) /\ \A k \in i..(i + n - 1) : s[k] \in Digits

\* \d{1,3}, greedy: the number of digits it takes at i (0: it fails)
HeadLen(s, i) ==
    IF DigitRun(s, i, 3) THEN 3 ELSE IF DigitRun(s, i, 2) THEN 2
    ELSE IF DigitRun(s, i, 1) THEN 1 ELSE 0

RECURSIVE DigitsPlus(_, _)
\* \d+, greedy: the number of digits it takes at i (0: it fails)
DigitsPlus(s, i) == IF DigitRun(s, i, 1) THEN 1 + DigitsPlus(s, i + 1) ELSE 0

RECURSIVE GroupsEnd(_, _)
\* ([\s \.,]\d{3})*, greedy, from position p: the position after it
GroupsEnd(s, p) ==
    IF p <= Len(s) /\ s[p] \in GroupSeparators /\ DigitRun(s, p + 1, 3)
    THEN GroupsEnd(s, p + 4) ELSE p

\* ([\.,]\d{2})?, greedy, from position p: the position after it
DecimalEnd(s, p) ==
    IF p <= Len(s) /\ s[p] \in DecimalSeparators /\ DigitRun(s, p + 1, 2)
    THEN p + 3 ELSE p

\* The match of PRICE_RE starting exactly at i: the position after it, 0 for
\* no match. The alternation is ordered and everything after it is optional,
\* so the first alternative that matches one digit is never backtracked.
MatchEnd(s, i) ==
    IF i > 1 /\ s[i - 1] \in Digits THEN 0
    ELSE IF HeadLen(s, i) > 0 THEN DecimalEnd(s, GroupsEnd(s, i + HeadLen(s, i)))
    ELSE IF DigitsPlus(s, i) > 0 THEN DecimalEnd(s, i + DigitsPlus(s, i))
    ELSE 0

\* PRICE_RE.search(s).group(0), None when nothing matches
PRICE_RE_search(s) ==
    LET starts == {i \in 1..Len(s) : MatchEnd(s, i) > 0}
    IN  IF starts = {} THEN None
        ELSE LET i == CHOOSE a \in starts : \A b \in starts : a <= b
             IN  Some(SubSeq(s, i, MatchEnd(s, i) - 1))

\* lines 31-42: the separator rules on the matched number
NormalizeSeparators(p) ==
    IF Contains(p, ",") /\ Contains(p, ".")
    THEN IF RFind(p, ",") > RFind(p, ".")
         THEN Replace(Replace(p, ".", << >>), ",", << "." >>)
         ELSE Replace(p, ",", << >>)
    ELSE IF Contains(p, ",") /\ Count(p, ",") = 1
         THEN Replace(p, ",", << "." >>)
         ELSE IF Count(p, ".") > 1
              THEN Replace(p, ".", << >>)
              ELSE p

\* _normalize_price_to_string(text): Optional[str]
_normalize_price_to_string(t) ==
    IF t = << >> THEN None
    ELSE LET m == PRICE_RE_search(Replace(t, NBSP, << " " >>))
         IN  IF IsNone(m) THEN None
             ELSE Some(NormalizeSeparators(
                     Replace(Replace(Val(m), NBSP, << " " >>), " ", << >>)))

(***************************************************************************)
(* URLs. A URL is a text whose first character stands for scheme and       *)
(* authority ("http://a") and whose other characters are "/", "#" and path *)
(* segments, so that rstrip('/'), urljoin, urlparse(..).netloc and the     *)
(* substring tests act on the text of the URL.                             *)
(***************************************************************************)
OriginA == "http://a"
OriginB == "http://b"
Origins == {OriginA, OriginB}

\* urlparse(u).netloc
Netloc(u) ==
    IF u # << >> /\ u[1] = OriginA THEN "a"
    ELSE IF u # << >> /\ u[1] = OriginB THEN "b"
    ELSE ""

\* the position of the last "/" of the path of u, 0 when it has none
LastSlash(u) == RFind(u, "/")

\* urllib.parse.urljoin(base, ref) for a base with an authority
urljoin(base, ref) ==
    IF ref = << >> THEN base
    ELSE IF ref[1] \in Origins THEN ref
    ELSE IF ref[1] = "#" THEN base \o ref
    ELSE IF ref[1] = "/" THEN << base[1] >> \o ref
    ELSE IF LastSlash(base) = 0 THEN << base[1], "/" >> \o ref
    ELSE SubSeq(base, 1, LastSlash(base)) \o ref

RECURSIVE RStripSlash(_)
\* u.rstrip('/')
RStripSlash(u) ==
    IF u # << >> /\ u[Len(u)] = "/" THEN RStripSlash(SubSeq(u, 1, Len(u) - 1)) ELSE u

\* c.lower() for the characters of a URL
LowerChar(c) == IF c = "Product" THEN "product" ELSE c

\* u.lower()
Lower(u) == [i \in 1..Len(u) |-> LowerChar(u[i])]

(***************************************************************************)
(* scraper/types.py                                                        *)
(***************************************************************************)
Product(name, price_, url_, image_url, description) ==
    [name |-> name, price |-> price_, url |-> url_, image_url |-> image_url,
     description |-> description]

\* str(v).strip() if v else None
StripIfTruthy(o) == IF Truthy(o) THEN Some(Strip(Val(o))) ELSE None

\* a or b, on optional texts
Or(a, b) == IF Truthy(a) THEN a ELSE b

(***************************************************************************)
(* _from_jsonld                                                            *)
(***************************************************************************)
RECURSIVE ScriptObjects(_)
\* the objects of the ld+json script tags in document order; a tag whose
\* text is not JSON is skipped
ScriptObjects(scripts) ==
    IF scripts = << >> THEN << >>
    ELSE (IF Head(scripts).valid THEN Head(scripts).objects ELSE << >>)
         \o ScriptObjects(Tail(scripts))

IsProductObject(obj) == obj.isdict /\ obj.type = "Product"

\* lines 57-77: the record built from a Product object
JsonLdRecord(obj, base_url) ==
    LET name == IF Truthy(obj.name) THEN Val(obj.name) ELSE << >>
        image == IF obj.image.list
                 THEN (IF obj.image.vals # << >> THEN Some(Head(obj.image.vals)) ELSE None)
                 ELSE obj.image.vals
        offered == IF obj.offers.isdict
                   THEN Or(obj.offers.price, Or(obj.offers.lowPrice, obj.offers.highPrice))
                   ELSE None
        price_ == IF Truthy(offered) THEN offered
                  ELSE _normalize_price_to_string(
                           IF Truthy(obj.price) THEN Val(obj.price) ELSE << >>)
        ref == Or(obj.url, Or(obj.id, Some(base_url)))
        joined == IF Truthy(ref) THEN urljoin(base_url, Val(ref)) ELSE base_url
    IN  Product(Strip(name), StripIfTruthy(price_),
                IF joined # << >> THEN joined ELSE base_url,
                StripIfTruthy(image), StripIfTruthy(obj.description))

_from_jsonld(soup, base_url) ==
    LET objs == ScriptObjects(soup.scripts)
        hits == {i \in 1..Len(objs) : IsProductObject(objs[i])}
    IN  IF hits = {} THEN None
        ELSE Some(JsonLdRecord(objs[CHOOSE i \in hits : \A j \in hits : i <= j], base_url))

(***************************************************************************)
(* _from_opengraph                                                         *)
(***************************************************************************)
\* _text(el): the stripped text of an element, "" for no element
_text(el) == IF IsNone(el) THEN << >> ELSE Strip(Val(el).text)

\* soup.find("meta", attrs={"itemprop": "price"})
MetaItempropPrice(soup) ==
    IF ~IsNone(soup.itemprop_price) /\ Val(soup.itemprop_price).meta
    THEN soup.itemprop_price ELSE None

\* soup.select_one("[class*='price'], [id*='price']")
PriceClassOrId(soup) == soup.price_el

_from_opengraph(soup, base_url) ==
    LET name == soup.og.title
        price0 == Or(soup.og.product_price_amount, soup.og.og_price_amount)
        meta_price == MetaItempropPrice(soup)
        price1 == IF ~Truthy(price0) /\ ~IsNone(meta_price)
                     /\ Truthy(Val(meta_price).content)
                  THEN Val(meta_price).content ELSE price0
        price2 == IF ~Truthy(price1)
                  THEN _normalize_price_to_string(_text(PriceClassOrId(soup)))
                  ELSE price1
    IN  IF Truthy(name) \/ Truthy(price0)
        THEN Some(Product(Strip(IF Truthy(name) THEN Val(name) ELSE << >>),
                          StripIfTruthy(price2), base_url,
                          StripIfTruthy(soup.og.image),
                          StripIfTruthy(soup.og.description)))
        ELSE None

(***************************************************************************)
(* _from_heuristics                                                        *)
(***************************************************************************)
\* soup.select_one(".price, .product-price, ..., [class*='price']")
PriceClass(soup) ==
    IF ~IsNone(soup.price_el) /\ Val(soup.price_el).by_class THEN soup.price_el ELSE None

\* the text nodes of the page in document order
TextNodes(soup) ==
    LET node(el) == IF IsNone(el) THEN << >> ELSE << Val(el).text >>
    IN  node(soup.h1) \o node(soup.name_el) \o node(soup.itemprop_price)
        \o node(soup.price_el) \o node(soup.other_text)

\* soup.find(string=PRICE_RE): the first text node the pattern is found in
FindPriceString(soup) ==
    LET nodes == TextNodes(soup)
        hits == {i \in 1..Len(nodes) : ~IsNone(PRICE_RE_search(nodes[i]))}
    IN  IF hits = {} THEN << >>
        ELSE nodes[CHOOSE i \in hits : \A j \in hits : i <= j]

_from_heuristics(soup, base_url) ==
    LET name_el == IF ~IsNone(soup.h1) THEN soup.h1 ELSE soup.name_el
        name == _text(name_el)
        price_text ==
            IF ~IsNone(soup.itemprop_price) THEN _text(soup.itemprop_price)
            ELSE IF ~IsNone(PriceClass(soup)) THEN _text(PriceClass(soup))
            ELSE Strip(FindPriceString(soup))
        price_ == _normalize_price_to_string(price_text)
        image_url == IF Truthy(soup.img_src)
                     THEN Some(urljoin(base_url, Val(soup.img_src))) ELSE soup.img_src
        description == IF IsNone(soup.desc_el) THEN None ELSE Some(_text(soup.desc_el))
    IN  IF name # << >> \/ ~IsNone(price_)
        THEN Some(Product(name, price_, base_url, image_url, description))
        ELSE None

(***************************************************************************)
(* extract_product                                                         *)
(***************************************************************************)
\* a or b, on optional records: a Product instance is always truthy
OrRecord(a, b) == IF ~IsNone(a) THEN a ELSE b

\* a plausible slip: the social-metadata strategy tried before structured data
extract_product_og_first(url_, html_) ==
    OrRecord(_from_opengraph(html_, url_),
             OrRecord(_from_jsonld(html_, url_), _from_heuristics(html_, url_)))

extract_product(url_, html_) ==
    OrRecord(_from_jsonld(html_, url_),
             OrRecord(_from_opengraph(html_, url_), _from_heuristics(html_, url_)))

(***************************************************************************)
(* scraper/crawler.py                                                      *)
(***************************************************************************)
LISTING_HINT_CLASSES == << "product", "card", "item", "goods", "catalog", "grid" >>

_same_domain(base_url, candidate_url) ==
    Netloc(base_url) = Netloc(candidate_url) \/ Netloc(candidate_url) = ""

RECURSIVE DedupeFrom(_, _)
DedupeFrom(urls, seen_) ==
    IF urls = << >> THEN << >>
    ELSE IF Head(urls) \in seen_ THEN DedupeFrom(Tail(urls), seen_)
    ELSE << Head(urls) >> \o DedupeFrom(Tail(urls), seen_ \cup {Head(urls)})

\* a plausible slip: only a repetition of the previous URL is dropped
RECURSIVE DedupeAdjacent(_)
DedupeAdjacent(urls) ==
    IF Len(urls) < 2 THEN urls
    ELSE IF urls[1] = urls[2] THEN DedupeAdjacent(Tail(urls))
    ELSE << Head(urls) >> \o DedupeAdjacent(Tail(urls))

_dedupe_keep_order(urls) == DedupeFrom(urls, {})

\* lines 58-62: the links of one itemListElement entry
ItemLinks(item, base_url) ==
    LET ref == Or(item.url, item.item_id)
    IN  IF item.isdict /\ Truthy(ref) THEN << urljoin(base_url, Val(ref)) >> ELSE << >>

RECURSIVE ItemListLinks(_, _)
ItemListLinks(items, base_url) ==
    IF items = << >> THEN << >>
    ELSE ItemLinks(Head(items), base_url) \o ItemListLinks(Tail(items), base_url)

\* lines 54-66: the links of one object of a script
ObjectLinks(obj, base_url) ==
    IF ~obj.isdict THEN << >>
    ELSE IF obj.type = "ItemList" THEN ItemListLinks(obj.items, base_url)
    ELSE IF obj.type = "Product" /\ Truthy(Or(obj.url, obj.id))
         THEN << urljoin(base_url, Val(Or(obj.url, obj.id))) >>
    ELSE << >>

RECURSIVE ObjectsLinks(_, _)
ObjectsLinks(objs, base_url) ==
    IF objs = << >> THEN << >>
    ELSE ObjectLinks(Head(objs), base_url) \o ObjectsLinks(Tail(objs), base_url)

_extract_jsonld_links(soup, base_url) ==
    ObjectsLinks(ScriptObjects(soup.scripts), base_url)

RECURSIVE ContainerAnchors(_, _)
\* lines 91-93: for each hint class in turn, the anchors inside a container
\* whose class attribute contains it
ContainerAnchors(soup, classes) ==
    IF classes = << >> THEN << >>
    ELSE LET in(a) == Head(classes) \in a.hints
         IN  SelectSeq(soup.anchors, in) \o ContainerAnchors(soup, Tail(classes))

\* lines 90-95
Anchors(soup) ==
    IF ContainerAnchors(soup, LISTING_HINT_CLASSES) # << >>
    THEN ContainerAnchors(soup, LISTING_HINT_CLASSES)
    ELSE soup.anchors

\* line 107: any(token in lower for token in ("/product", "/item", "/goods",
\* "/catalog/", "sku", "id="))
ProductIsh(lower) ==
    \E i \in 1..Len(lower) :
        \/ /\ lower[i] = "/" /\ i < Len(lower)
           /\ lower[i + 1] \in {"product", "item", "goods"}
        \/ /\ lower[i] = "/" /\ i + 1 < Len(lower)
           /\ lower[i + 1] = "catalog" /\ lower[i + 2] = "/"
        \/ lower[i] \in {"sku", "?id=7"}

\* lines 98-108: what one anchor adds to candidate_urls
AnchorCandidate(a, page_url_) ==
    LET abs_url == urljoin(page_url_, a.href)
    IN  IF a.href = << >> \/ a.href[1] = "#" THEN << >>
        ELSE IF ~_same_domain(page_url_, abs_url) THEN << >>
        ELSE IF ProductIsh(Lower(abs_url)) THEN << abs_url >>
        ELSE << >>

RECURSIVE AnchorCandidates(_, _)
AnchorCandidates(anchors, page_url_) ==
    IF anchors = << >> THEN << >>
    ELSE AnchorCandidate(Head(anchors), page_url_)
         \o AnchorCandidates(Tail(anchors), page_url_)

\* deduped[:max_links] for max_links >= 0
Take(seq, n) == SubSeq(seq, 1, IF n < Len(seq) THEN n ELSE Len(seq))

\* a plausible slip: the override of line 115 left out
discover_no_override(page_url_, soup, max_links_) ==
    LET jsonld_links == _extract_jsonld_links(soup, page_url_)
        unique == _dedupe_keep_order(jsonld_links)
        deduped == _dedupe_keep_order(
                       AnchorCandidates(Anchors(soup), page_url_) \o jsonld_links)
    IN  [is_product_page |->
             /\ jsonld_links # << >>
             /\ Len(unique) = 1
             /\ RStripSlash(unique[1]) = RStripSlash(page_url_),
         product_links |-> Take(deduped, max_links_)]

discover_product_links(page_url_, soup, max_links_) ==
    LET jsonld_links == _extract_jsonld_links(soup, page_url_)
        unique == _dedupe_keep_order(jsonld_links)
        flagged == /\ jsonld_links # << >>
                   /\ Len(unique) = 1
                   /\ RStripSlash(unique[1]) = RStripSlash(page_url_)
        candidate_urls == AnchorCandidates(Anchors(soup), page_url_) \o jsonld_links
        deduped == _dedupe_keep_order(candidate_urls)
    IN  [is_product_page |-> IF Len(deduped) >= 2 THEN FALSE ELSE flagged,
         product_links |-> Take(deduped, max_links_)]

(***************************************************************************)
(* Pages. A parsed page is a record of what the selectors of extract.py    *)
(* and crawler.py read from it.                                            *)
(***************************************************************************)
NoOffers == [isdict |-> TRUE, price |-> None, lowPrice |-> None, highPrice |-> None]
NoImage == [list |-> FALSE, vals |-> None]

\* a JSON object of an ld+json script
Obj(type, name, image, offers, price_, url_, items) ==
    [isdict |-> TRUE, type |-> type, name |-> name, description |-> None,
     image |-> image, offers |-> offers, price |-> price_, url |-> url_,
     id |-> None, items |-> items]

\* a JSON value that is not an object
NonDict == [Obj("", None, NoImage, NoOffers, None, None, << >>) EXCEPT !.isdict = FALSE]

Script(objects) == [valid |-> TRUE, objects |-> objects]
InvalidScript == [valid |-> FALSE, objects |-> << >>]

NoOg == [title |-> None, description |-> None, image |-> None,
         product_price_amount |-> None, og_price_amount |-> None]

BlankPage ==
    [scripts |-> << >>, og |-> NoOg, itemprop_price |-> None, price_el |-> None,
     h1 |-> None, name_el |-> None, other_text |-> None, img_src |-> None,
     desc_el |-> None, anchors |-> << >>]

Element(t) == Some([text |-> t, meta |-> FALSE, content |-> None, by_class |-> TRUE])
MetaElement(c) == Some([text |-> << >>, meta |-> TRUE, content |-> c, by_class |-> FALSE])
IdElement(t) == Some([text |-> t, meta |-> FALSE, content |-> None, by_class |-> FALSE])

PageA == << OriginA, "/", "product", "/", "1" >>

ExtractIdle == url = << >> /\ product = None
DiscoverIdle == page_url = << >> /\ max_links = 0
FoundIdle == is_product_page = FALSE /\ product_links = << >>
RunIdle ==
    /\ limit = 0 /\ final_url = << >> /\ total = 0 /\ idx_raw = 0 /\ seen = {}
    /\ processed = 0 /\ products = << >> /\ fetched = << >> /\ warnings = 0
    /\ errors = 0 /\ interrupt_at = "" /\ writer = "idle" /\ saved = None
    /\ exit_code = None

(***************************************************************************)
(* scraper/excel_writer.py. A worksheet is the function from the           *)
(* (row, column) pairs that have a cell to the cell's value, None for a    *)
(* cell without a value (a formatted empty cell of a template). A path is  *)
(* the sequence of its components, "" being << >>.                         *)
(***************************************************************************)
\* lines 12-18, transliterated
DEFAULT_HEADERS_RU ==
    << << "Nazvanie" >>, << "Tsena" >>, << "Ssylka" >>,
       << "Ssylka na izobrazhenie" >>, << "Opisanie" >> >>

Max(S) == CHOOSE a \in S : \A b \in S : b <= a

\* line 29: Workbook().active, a sheet without cells
Workbook == [k \in {} |-> None]

\* ws.max_row: the last row that has a cell, 1 for a sheet without cells
max_row(ws) == IF DOMAIN ws = {} THEN 1 ELSE Max({k[1] : k \in DOMAIN ws})

\* ws.max_column: the last column that has a cell, 1 for a sheet without cells
max_column(ws) == IF DOMAIN ws = {} THEN 1 ELSE Max({k[2] : k \in DOMAIN ws})

\* ws.cell(row=r, column=c).value
cell_value(ws, r, c) == IF <<r, c>> \in DOMAIN ws THEN ws[<<r, c>>] ELSE None

\* ws.cell(row=r, column=c).value = vals[c] for every c in 1..len(vals)
SetRow(ws, r, vals) ==
    [k \in DOMAIN ws \cup {<<r, c>> : c \in 1..Len(vals)} |->
        IF k[1] = r /\ k[2] \in 1..Len(vals) THEN vals[k[2]] ELSE ws[k]]

\* os.path.exists(path)
exists(fs, path) == path \in DOMAIN fs /\ ~IsNone(fs[path])

\* lines 21-31: (sheet, is_new_file); load_workbook gives the cells of the file
_ensure_sheet(fs, wb_path) ==
    IF Truthy(wb_path) /\ exists(fs, Val(wb_path))
    THEN [ws |-> Val(fs[Val(wb_path)]), is_new |-> FALSE]
    ELSE [ws |-> Workbook, is_new |-> TRUE]

\* line 43
wb_path_to_open(fs, template_path_) ==
    IF Truthy(template_path_) /\ exists(fs, Val(template_path_))
    THEN template_path_ ELSE None

\* line 40: headers or DEFAULT_HEADERS_RU
HeadersOrDefault(headers_) ==
    IF ~IsNone(headers_) /\ Val(headers_) # << >> THEN Val(headers_)
    ELSE DEFAULT_HEADERS_RU

\* line 48: the sheet seems empty
SeemsEmpty(ws) ==
    max_row(ws) = 1 /\ max_column(ws) = 1 /\ IsNone(cell_value(ws, 1, 1))

\* lines 48-50: the header row, one title per column
WithHeaders(ws, titles) ==
    IF SeemsEmpty(ws) THEN SetRow(ws, 1, [c \in 1..Len(titles) |-> Some(titles[c])])
    ELSE ws

\* a plausible slip: the first record goes to the last row
start_row_on_last(ws) == max_row(ws)

\* line 52
start_row(ws) == IF max_row(ws) >= 1 THEN max_row(ws) + 1 ELSE 1

\* lines 54-58: the five cells of a record
RecordRow(p) == << Some(p.name), p.price, Some(p.url), p.image_url, p.description >>

RECURSIVE WithRows(_, _, _)
\* lines 53-58: products[i] goes to row first + i - 1
WithRows(ws, first, products_) ==
    IF products_ = << >> THEN ws
    ELSE WithRows(SetRow(ws, first, RecordRow(Head(products_))), first + 1,
                  Tail(products_))

\* lines 48-58: the sheet as it is when it is saved
FilledSheet(ws, products_, headers_) ==
    LET headed == WithHeaders(ws, HeadersOrDefault(headers_))
    IN  WithRows(headed, start_row(headed), products_)

\* lines 34-61: the files after the call
write_products_to_excel(fs, products_, out_path_, template_path_, headers_) ==
    LET opened_ == _ensure_sheet(fs, wb_path_to_open(fs, template_path_))
    IN  [fs EXCEPT ![out_path_] = Some(FilledSheet(opened_.ws, products_, headers_))]

\* cli.py line 155: the default of --out
OutFile == << "products.xlsx" >>
TemplateFile == << "template.xlsx" >>
Paths == {OutFile, TemplateFile}
NoFiles == [p \in Paths |-> None]

\* the command-line defaults, and no file on disk
WriterIdle ==
    /\ out_path = OutFile /\ template_path = None /\ headers = None
    /\ files = NoFiles /\ opened = None

(***************************************************************************)
(* Product pages extract_product is applied to                             *)
(***************************************************************************)
MaxScripts == 2

ProductFull ==
    Obj("Product", Some(<< "A" >>), [list |-> FALSE, vals |-> Some(<< "i", "1" >>)],
        [NoOffers EXCEPT !.price = Some(<< "1", "0" >>)], None, None, << >>)
ProductBare == Obj("Product", None, NoImage, NoOffers, None, None, << >>)
ProductListed ==
    Obj("Product", Some(<< " ", "A", "2", " " >>),
        [list |-> TRUE, vals |-> << << "i", "2" >>, << "i", "3" >> >>],
        [NoOffers EXCEPT !.isdict = FALSE],
        Some(<< "1", " ", "2", "3", "4", ",", "5", "6" >>),
        Some(<< "/", "product", "/", "2" >>), << >>)
ProductLow ==
    Obj("Product", None, NoImage, [NoOffers EXCEPT !.lowPrice = Some(<< "5" >>)],
        None, None, << >>)
Organization == Obj("Organization", Some(<< "O" >>), NoImage, NoOffers, None, None, << >>)

ProductScripts ==
    { InvalidScript, Script(<< ProductFull >>), Script(<< ProductBare >>),
      Script(<< NonDict, Organization, ProductListed >>), Script(<< Organization >>),
      Script(<< ProductLow >>) }

OgTags ==
    { NoOg,
      [NoOg EXCEPT !.title = Some(<< "B" >>), !.image = Some(<< " ", "i", "4" >>)],
      [NoOg EXCEPT !.title = Some(<< " " >>)],
      [NoOg EXCEPT !.product_price_amount = Some(<< "2", "0" >>)],
      [NoOg EXCEPT !.title = Some(<< "B" >>), !.og_price_amount = Some(<< "3", "0" >>)],
      [NoOg EXCEPT !.title = Some(<< >>), !.description = Some(<< "d" >>)] }

ItempropPrices == { None, MetaElement(Some(<< "4", "0" >>)) }
PriceElements ==
    { None, Element(<< "1", ".", "2", "3", "4", ",", "5", "6", " ", "x" >>),
      IdElement(<< "7" >>) }
Headings == { None, Element(<< "C" >>), Element(<< " " >>) }
NameElements == { None, Element(<< "D" >>) }
OtherTexts == { None, Element(<< "x", " ", "9", "9" >>) }
ImageSources == { None, Some(<< "/", "i", ".", "p", "n", "g" >>) }

ProductPages(maxScripts) ==
    { [BlankPage EXCEPT !.scripts = sc, !.og = og, !.itemprop_price = ip,
                        !.price_el = pe, !.h1 = h, !.name_el = ne,
                        !.other_text = ot, !.img_src = im] :
        sc \in UNION { [1..n -> ProductScripts] : n \in 0..maxScripts },
        og \in OgTags, ip \in ItempropPrices, pe \in PriceElements,
        h \in Headings, ne \in NameElements, ot \in OtherTexts, im \in ImageSources }

(***************************************************************************)
(* extract_product as a state machine                                      *)
(***************************************************************************)
PriceIdle == text = << >> /\ price = None /\ renorm = None

InitExtract ==
    /\ pc = "page"
    /\ url = PageA
    /\ html \in ProductPages(MaxScripts)
    /\ product = None
    /\ PriceIdle
    /\ DiscoverIdle
    /\ FoundIdle
    /\ RunIdle
    /\ WriterIdle

Extract ==
    /\ pc = "page"
    /\ product' = extract_product(url, html)
    /\ pc' = "extracted"
    /\ UNCHANGED <<url, html, writerVars, priceVars, discoverVars, foundVars,
                   runVars>>

NextExtract == Extract

SpecExtract == InitExtract /\ [][NextExtract]_vars

(***************************************************************************)
(* Pages discover_product_links is applied to                              *)
(***************************************************************************)
MaxAnchors == 2
MaxLinks == 3

PageASlash == PageA \o << "/" >>
BaseUrls == { PageA, PageASlash }

Anchor(href, hints) == [href |-> href, hints |-> hints]
Item(url_, item_id) == [isdict |-> TRUE, url |-> url_, item_id |-> item_id]

AnchorTags ==
    { Anchor(<< "/", "Product", "/", "2" >>, {}),
      Anchor(<< "/", "product", "/", "1" >>, {"product", "card"}),
      Anchor(<< OriginB, "/", "product", "/", "3" >>, {}),
      Anchor(<< "/", "about" >>, {}),
      Anchor(<< "item", "/", "5" >>, {"grid"}),
      Anchor(<< "#", "top" >>, {}) }

ProductSelf == Obj("Product", None, NoImage, NoOffers, None, Some(PageA), << >>)
ProductSelfSlash == Obj("Product", None, NoImage, NoOffers, None, Some(PageASlash), << >>)
ItemList ==
    Obj("ItemList", None, NoImage, NoOffers, None, None,
        << Item(Some(<< "/", "Product", "/", "2" >>), None),
           Item(None, Some(<< OriginB, "/", "product", "/", "9" >>)),
           [Item(None, None) EXCEPT !.isdict = FALSE] >>)

ListingScripts ==
    { InvalidScript, Script(<< ProductSelf >>), Script(<< ProductSelfSlash >>),
      Script(<< NonDict, ProductBare, ItemList >>) }

ListingPages(maxScripts, maxAnchors) ==
    { [BlankPage EXCEPT !.scripts = sc, !.anchors = an] :
        sc \in UNION { [1..n -> ListingScripts] : n \in 0..maxScripts },
        an \in UNION { [1..n -> AnchorTags] : n \in 0..maxAnchors } }

(***************************************************************************)
(* discover_product_links as a state machine                               *)
(***************************************************************************)
InitDiscover ==
    /\ pc = "page"
    /\ page_url \in BaseUrls
    /\ html \in ListingPages(MaxScripts, MaxAnchors)
    /\ max_links \in 0..MaxLinks
    /\ is_product_page = FALSE
    /\ product_links = << >>
    /\ PriceIdle
    /\ ExtractIdle
    /\ RunIdle
    /\ WriterIdle

Discover ==
    /\ pc = "page"
    /\ LET found == discover_product_links(page_url, html, max_links)
       IN  /\ is_product_page' = found.is_product_page
           /\ product_links' = found.product_links
    /\ pc' = "discovered"
    /\ UNCHANGED <<page_url, html, writerVars, max_links, priceVars, extractVars,
                   runVars>>

NextDiscover == Discover

SpecDiscover == InitDiscover /\ [][NextDiscover]_vars

(***************************************************************************)
(* Price texts the normaliser is applied to: every concatenation of at     *)
(* most MaxTokens tokens, and the sample texts.                            *)
(***************************************************************************)
MaxTokens == 7

PriceTokens ==
    { << "1" >>, << "2", "3", "4" >>, << "5", "6" >>, << "." >>, << "," >>, << " " >> }

RECURSIVE Concat(_)
Concat(ss) == IF ss = << >> THEN << >> ELSE Head(ss) \o Concat(Tail(ss))

TokenTexts(maxTokens) ==
    { Concat(ts) : ts \in UNION { [1..n -> PriceTokens] : n \in 0..maxTokens } }

SampleTexts ==
    { << "1", " ", "2", "3", "4", ",", "5", "6" >>,
      << "1", ".", "2", "3", "4", ",", "5", "6" >>,
      << "1", ",", "2", "3", "4", ".", "5", "6" >>,
      << "1", ".", "2", "3", "4", ".", "5", "6", "7" >>,
      << "1", NBSP, "2", "3", "4", ",", "5", "6" >>,
      << "x", " ", "1", TAB, "2", "3", "4" >>,
      << "9", "9", "9", "9", "9" >>,
      << "x", "y" >>,
      << "$", "1", "2", ".", "5", "0", " ", "7" >> }

PriceTexts(maxTokens) == TokenTexts(maxTokens) \cup SampleTexts

(***************************************************************************)
(* Price normalisation as a state machine: the text is normalised, and the *)
(* string returned is normalised once more.                                *)
(***************************************************************************)
InitPrice ==
    /\ pc = "text"
    /\ text \in PriceTexts(MaxTokens)
    /\ price = None
    /\ renorm = None
    /\ html = BlankPage
    /\ ExtractIdle
    /\ DiscoverIdle
    /\ FoundIdle
    /\ RunIdle
    /\ WriterIdle

Normalize ==
    /\ pc = "text"
    /\ price' = _normalize_price_to_string(text)
    /\ pc' = "normalized"
    /\ UNCHANGED <<text, renorm, html, writerVars, extractVars, discoverVars,
                   foundVars, runVars>>

NormalizeAgain ==
    /\ pc = "normalized"
    /\ ~IsNone(price)
    /\ renorm' = _normalize_price_to_string(Val(price))
    /\ pc' = "renormalized"
    /\ UNCHANGED <<text, price, html, writerVars, extractVars, discoverVars,
                   foundVars, runVars>>

NextPrice == Normalize \/ NormalizeAgain

SpecPrice == InitPrice /\ [][NextPrice]_vars

(***************************************************************************)
(* scraper/cli.py: main and scrape_to_excel. A step that raises runs up    *)
(* to the handler that catches it: an exception that leaves scrape_to_excel*)
(* ends the run with the status main returns for it.                       *)
(***************************************************************************)
\* the pages a fetch of a product link answers with
LinkPages ==
    { BlankPage,
      [BlankPage EXCEPT !.scripts = << Script(<< ProductFull >>) >>],
      [BlankPage EXCEPT !.h1 = Element(<< "C" >>)] }

\* what fetch_html does: a page, a transport error, or the user's interrupt
FetchOutcomes(pages) ==
    { [kind |-> "ok", page |-> p] : p \in pages }
    \cup { [kind |-> "Exception", page |-> BlankPage],
           [kind |-> "KeyboardInterrupt", page |-> BlankPage] }

\* main, lines 226-231: the status returned for an exception
main_except(exc) == IF exc = "KeyboardInterrupt" THEN 130 ELSE 1

\* a plausible slip: a bare `except:` in the loop
HarvestCatchesAll(exc) == TRUE

\* a plausible slip: no handler in the loop
HarvestCatchesNothing(exc) == FALSE

\* line 133: `except Exception` in the loop
HarvestCatches(exc) == exc = "Exception"

Min(a, b) == IF a < b THEN a ELSE b

InitRun ==
    /\ pc = "start"
    /\ limit \in 0..MaxLinks
    /\ html = BlankPage
    /\ final_url = << >> /\ total = 0 /\ idx_raw = 0 /\ seen = {}
    /\ processed = 0 /\ products = << >> /\ fetched = << >> /\ warnings = 0
    /\ errors = 0 /\ interrupt_at = "" /\ writer = "idle" /\ saved = None
    /\ exit_code = None
    /\ FoundIdle
    /\ PriceIdle
    /\ ExtractIdle
    /\ DiscoverIdle
    /\ WriterIdle

\* the run ends in main's handler for exc
Abort(exc) ==
    /\ exit_code' = Some(main_except(exc))
    /\ pc' = "exit"

\* lines 93-112: the seed fetch fails
SeedFetchFails ==
    /\ pc = "start"
    /\ Abort("Exception")
    /\ UNCHANGED <<html, writerVars, priceVars, extractVars, discoverVars,
                   foundVars, limit,
                   final_url, total, idx_raw, seen, processed, products, fetched,
                   warnings, errors, interrupt_at, writer, saved>>

\* lines 93-112: the seed page is fetched and discovered; a single product
\* page (or a page without links) is extracted on the spot
SeedFetch ==
    /\ pc = "start"
    /\ \E base \in BaseUrls, page \in ListingPages(MaxScripts, MaxAnchors) :
          LET found == discover_product_links(base, page, limit)
              single == found.is_product_page \/ found.product_links = << >>
              rec == extract_product(base, page)
          IN  /\ final_url' = base
              /\ is_product_page' = found.is_product_page
              /\ product_links' = found.product_links
              /\ total' = IF single THEN 1 ELSE Min(limit, Len(found.product_links))
              /\ products' = IF single /\ ~IsNone(rec) THEN << Val(rec) >> ELSE << >>
              /\ idx_raw' = IF single THEN 0 ELSE 1
              /\ pc' = IF single THEN "save" ELSE "harvest"
    /\ UNCHANGED <<html, writerVars, priceVars, extractVars, discoverVars, limit,
                   seen, processed,
                   fetched, warnings, errors, interrupt_at, writer, saved, exit_code>>

\* where the loop goes after an iteration that did not leave it: line 136,
\* then the next link or the end of product_links
LoopOn(collected) ==
    IF Len(collected) >= limit \/ idx_raw = Len(product_links)
    THEN pc' = "save" /\ idx_raw' = idx_raw
    ELSE pc' = "harvest" /\ idx_raw' = idx_raw + 1

\* lines 115-137: one iteration of the loop over product_links
Harvest ==
    /\ pc = "harvest"
    /\ LET link == product_links[idx_raw]
       IN  IF link \in seen
           THEN \* continue
                /\ IF idx_raw = Len(product_links)
                   THEN pc' = "save" /\ idx_raw' = idx_raw
                   ELSE pc' = "harvest" /\ idx_raw' = idx_raw + 1
                /\ UNCHANGED <<seen, processed, products, fetched, warnings, errors,
                               interrupt_at, exit_code>>
           ELSE IF processed + 1 > total
           THEN \* break
                /\ pc' = "save"
                /\ seen' = seen \cup {link}
                /\ UNCHANGED <<idx_raw, processed, products, fetched, warnings,
                               errors, interrupt_at, exit_code>>
           ELSE \E out \in FetchOutcomes(LinkPages) :
                /\ seen' = seen \cup {link}
                /\ fetched' = Append(fetched, link)
                /\ IF out.kind = "ok"
                   THEN LET rec == extract_product(link, out.page)
                        IN  /\ products' = IF IsNone(rec) THEN products
                                           ELSE Append(products, Val(rec))
                            /\ processed' = processed + 1
                            /\ LoopOn(products')
                            /\ UNCHANGED <<warnings, errors, interrupt_at, exit_code>>
                   ELSE /\ errors' = IF out.kind = "Exception" THEN errors + 1 ELSE errors
                        /\ interrupt_at' = IF out.kind = "KeyboardInterrupt"
                                           THEN "harvest" ELSE interrupt_at
                        /\ IF HarvestCatches(out.kind)
                           THEN /\ warnings' = warnings + 1
                                /\ LoopOn(products)
                                /\ UNCHANGED exit_code
                           ELSE /\ Abort(out.kind)
                                /\ UNCHANGED <<warnings, idx_raw>>
                        /\ UNCHANGED <<processed, products>>
    /\ UNCHANGED <<html, writerVars, priceVars, extractVars, discoverVars,
                   foundVars, limit,
                   final_url, total, writer, saved>>

\* lines 139-140: write_products_to_excel is called
WriteBegin ==
    /\ pc = "save"
    /\ writer' = "writing"
    /\ pc' = "writing"
    /\ UNCHANGED <<html, writerVars, priceVars, extractVars, discoverVars,
                   foundVars, limit,
                   final_url, total, idx_raw, seen, processed, products, fetched,
                   warnings, errors, interrupt_at, saved, exit_code>>

\* excel_writer.py lines 40-61: the sheet is opened and filled, the workbook saved
WriteDone ==
    /\ pc = "writing"
    /\ writer' = "done"
    /\ saved' = Some(products)
    /\ opened' = Some(_ensure_sheet(files, wb_path_to_open(files, template_path)))
    /\ files' = write_products_to_excel(files, products, out_path, template_path,
                                        headers)
    /\ pc' = "written"
    /\ UNCHANGED <<html, out_path, template_path, headers, priceVars, extractVars,
                   discoverVars, foundVars, limit,
                   final_url, total, idx_raw, seen, processed, products, fetched,
                   warnings, errors, interrupt_at, exit_code>>

\* excel_writer.py lines 44, 61: the load or the save fails, no file is
\* written, and main returns for it
WriteFails ==
    /\ pc = "writing"
    /\ writer' = "failed"
    /\ Abort("Exception")
    /\ UNCHANGED <<html, writerVars, priceVars, extractVars, discoverVars,
                   foundVars, limit,
                   final_url, total, idx_raw, seen, processed, products, fetched,
                   warnings, errors, interrupt_at, saved>>

\* lines 141-142 and main lines 223-225
Return ==
    /\ pc = "written"
    /\ exit_code' = Some(0)
    /\ pc' = "exit"
    /\ UNCHANGED <<html, writerVars, priceVars, extractVars, discoverVars,
                   foundVars, limit,
                   final_url, total, idx_raw, seen, processed, products, fetched,
                   warnings, errors, interrupt_at, writer, saved>>

\* the user interrupts the run outside the loop's try block
Interrupt ==
    /\ pc \in {"start", "harvest", "save", "writing", "written"}
    /\ interrupt_at' = pc
    /\ Abort("KeyboardInterrupt")
    /\ UNCHANGED <<html, writerVars, priceVars, extractVars, discoverVars,
                   foundVars, limit,
                   final_url, total, idx_raw, seen, processed, products, fetched,
                   warnings, errors, writer, saved>>

Next ==
    \/ SeedFetch
    \/ SeedFetchFails
    \/ Harvest
    \/ WriteBegin
    \/ WriteDone
    \/ WriteFails
    \/ Return
    \/ Interrupt

Init == InitRun

Spec == Init /\ [][Next]_vars

\* the interpreter keeps executing the loop and goes on to the save stage
FairSpec == Spec /\ WF_vars(Harvest) /\ WF_vars(WriteBegin)

(***************************************************************************)
(* write_products_to_excel on its own: the records, the paths, the headers *)
(* and the files on disk are the caller's                                  *)
(***************************************************************************)
MaxRecords == 2
MaxSheetRows == 2

RecordFull ==
    Product(<< "A" >>, Some(<< "1", "0" >>), PageA, Some(<< OriginA, "/", "i" >>),
            Some(<< "d" >>))
RecordBare == Product(<< >>, None, PageA, None, None)

RecordSeqs(maxRecords) ==
    UNION { [1..n -> {RecordFull, RecordBare}] : n \in 0..maxRecords }

\* the sheets of a workbook file: in rows 1..maxRows and columns 1..2, a cell
\* is absent, or formatted and without a value, or holds a value
Sheets(maxRows) ==
    UNION { [cells -> {None, Some(<< "old" >>)}] :
            cells \in SUBSET ((1..maxRows) \X (1..2)) }

FileStates(maxRows) ==
    { [p \in Paths |-> IF p = TemplateFile THEN t ELSE o] :
        t \in {None} \cup { Some(sh) : sh \in Sheets(maxRows) },
        o \in {None, Some(<<1, 1>> :> Some(<< "old" >>))} }

InitWriter ==
    /\ pc = "save"
    /\ products \in RecordSeqs(MaxRecords)
    /\ out_path \in Paths
    /\ template_path \in {None, Some(<< >>)} \cup { Some(p) : p \in Paths }
    /\ headers \in {None, Some(<< << "Name" >>, << "Price" >> >>)}
    /\ files \in FileStates(MaxSheetRows)
    /\ opened = None
    /\ limit = 0 /\ final_url = << >> /\ total = 0 /\ idx_raw = 0 /\ seen = {}
    /\ processed = 0 /\ fetched = << >> /\ warnings = 0 /\ errors = 0
    /\ interrupt_at = "" /\ writer = "idle" /\ saved = None /\ exit_code = None
    /\ html = BlankPage
    /\ PriceIdle
    /\ ExtractIdle
    /\ DiscoverIdle
    /\ FoundIdle

NextWriter == WriteBegin \/ WriteDone \/ WriteFails

SpecWriter == InitWriter /\ [][NextWriter]_vars

(***************************************************************************)
(* C9, C10: price normalisation                                            *)
(***************************************************************************)
\* the located number: the match of PRICE_RE, spaces and NBSP removed
LocatedNumber(t) ==
    Replace(Replace(Val(PRICE_RE_search(Replace(t, NBSP, << " " >>))),
                    NBSP, << >>), " ", << >>)

IsDigitChar(c) == c \in Digits

\* the right-most of the two separators becomes the decimal dot and every
\* separator before it is removed
RightMostDecimal(q) ==
    LET k == IF RFind(q, ",") > RFind(q, ".") THEN RFind(q, ",") ELSE RFind(q, ".")
    IN  SelectSeq(SubSeq(q, 1, k - 1), IsDigitChar) \o << "." >> \o SubSeq(q, k + 1, Len(q))

Txt_1s234c56 == << "1", " ", "2", "3", "4", ",", "5", "6" >>
Txt_1d234c56 == << "1", ".", "2", "3", "4", ",", "5", "6" >>
Txt_1c234d56 == << "1", ",", "2", "3", "4", ".", "5", "6" >>
Txt_1d234d567 == << "1", ".", "2", "3", "4", ".", "5", "6", "7" >>
Txt_1234d56 == << "1", "2", "3", "4", ".", "5", "6" >>
Txt_1234567 == << "1", "2", "3", "4", "5", "6", "7" >>

\* C9: the separator rules on the located number. Spaces and non-breaking
\* spaces are removed; with both a comma and a dot the right-most of the two
\* becomes the decimal dot and every separator before it is removed, so the
\* result has exactly one dot and no comma; a single comma alone becomes the
\* dot; several dots without a comma are all removed; and the four example
\* texts give "1234.56", "1234.56", "1234.56" and "1234567".
C9_SeparatorRules ==
    (pc # "text" /\ ~IsNone(price)) =>
        LET q == LocatedNumber(text)
            r == Val(price)
        IN  /\ ~Contains(r, " ") /\ ~Contains(r, NBSP)
            /\ (Contains(q, ",") /\ Contains(q, ".")) =>
                  /\ r = RightMostDecimal(q)
                  /\ Count(r, ".") = 1
                  /\ Count(r, ",") = 0
            /\ (Count(q, ",") = 1 /\ ~Contains(q, ".")) =>
                  r = Replace(q, ",", << "." >>)
            /\ (Count(q, ".") > 1 /\ ~Contains(q, ",")) => ~Contains(r, ".")
            /\ text \in {Txt_1s234c56, Txt_1d234c56, Txt_1c234d56} => r = Txt_1234d56
            /\ text = Txt_1d234d567 => r = Txt_1234567

\* C10: price normalisation is idempotent: normalising the string that a
\* normalisation returned gives that string again.
C10_Idempotent == pc = "renormalized" => renorm = price

(***************************************************************************)
(* C4, C5: extract_product                                                 *)
(***************************************************************************)
\* a record is usable: its name is not empty or its price is present
Usable(rec) == rec.name # << >> \/ ~IsNone(rec.price)

\* C4: extract_product returns no record or a usable record: every record
\* returned has a non-empty name or a present price, whichever strategy
\* produced it.
C4_ReturnedRecordUsable ==
    (pc = "extracted" /\ ~IsNone(product)) => Usable(Val(product))

\* the first Product object of the page's structured data, if any
FirstProductBlock(page) ==
    LET objs == ScriptObjects(page.scripts)
        hits == {i \in 1..Len(objs) : objs[i].isdict /\ objs[i].type = "Product"}
    IN  IF hits = {} THEN None
        ELSE Some(objs[CHOOSE i \in hits : \A j \in hits : i <= j])

BlockName(obj) == IF Truthy(obj.name) THEN Strip(Val(obj.name)) ELSE << >>
OgName(page) == IF Truthy(page.og.title) THEN Strip(Val(page.og.title)) ELSE << >>

\* C5: the strategies are tried in the order structured data, social
\* metadata, DOM heuristics, and the result of the first that succeeds is
\* returned unmerged: with a Product block the record carries the block's
\* name (and nothing of the OpenGraph tags), the social-metadata result is
\* returned only when structured data yields nothing, and the DOM-heuristic
\* result only when both yield nothing.
C5_FirstStrategyWins ==
    pc = "extracted" =>
        LET block == FirstProductBlock(html)
            og == _from_opengraph(html, url)
            dom == _from_heuristics(html, url)
        IN  /\ ~IsNone(block) =>
                /\ ~IsNone(product)
                /\ Val(product).name = BlockName(Val(block))
                /\ product = _from_jsonld(html, url)
            /\ (IsNone(block) /\ ~IsNone(og)) => product = og
            /\ (IsNone(block) /\ IsNone(og)) => product = dom
            /\ (~IsNone(product) /\ product = og /\ og # _from_jsonld(html, url))
                   => IsNone(block)
            /\ (~IsNone(product) /\ product = dom /\ dom # og
                    /\ dom # _from_jsonld(html, url))
                   => (IsNone(block) /\ IsNone(og))

\* a page with a Product block and OpenGraph tags of a different name has
\* been extracted, and the record has the block's name
C5_Witness ==
    /\ pc = "extracted"
    /\ ~IsNone(FirstProductBlock(html))
    /\ Truthy(html.og.title)
    /\ OgName(html) # BlockName(Val(FirstProductBlock(html)))
    /\ BlockName(Val(FirstProductBlock(html))) # << >>
    /\ ~IsNone(html.og.image)
    /\ Val(product).name = BlockName(Val(FirstProductBlock(html)))

(***************************************************************************)
(* C6, C7, C8: discover_product_links                                      *)
(***************************************************************************)
\* the merged candidates: DOM-derived first, then the structured-data URLs
Merged == AnchorCandidates(Anchors(html), page_url) \o _extract_jsonld_links(html, page_url)

\* the position at which u is first seen in the sequence m
FirstSeen(m, u) == CHOOSE i \in 1..Len(m) : m[i] = u /\ \A j \in 1..(i - 1) : m[j] # u

\* C6: the list returned has at most max_links entries, contains no URL
\* twice and keeps the first-seen order of the merged candidates: it is the
\* first min(max_links, number of distinct candidates) distinct candidates.
C6_CappedDistinctOrdered ==
    pc = "discovered" =>
        LET m == Merged
            mergedSet == {m[i] : i \in 1..Len(m)}
            returned == {product_links[i] : i \in 1..Len(product_links)}
            first == [u \in mergedSet |-> FirstSeen(m, u)]
        IN  /\ Len(product_links) <= max_links
            /\ \A i, j \in 1..Len(product_links) :
                   i # j => product_links[i] # product_links[j]
            /\ returned \subseteq mergedSet
            /\ \A i, j \in 1..Len(product_links) :
                   i < j => first[product_links[i]] < first[product_links[j]]
            /\ \A u \in mergedSet \ returned : \A v \in returned : first[v] < first[u]
            /\ Len(product_links) =
                   IF max_links < Cardinality(mergedSet) THEN max_links
                   ELSE Cardinality(mergedSet)

\* a page whose merged candidates repeat a URL and exceed the maximum has
\* been discovered
C6_Witness ==
    /\ pc = "discovered"
    /\ max_links >= 2
    /\ Len(product_links) = max_links
    /\ LET m == Merged
       IN  /\ Cardinality({m[i] : i \in 1..Len(m)}) > max_links
           /\ Len(m) > Cardinality({m[i] : i \in 1..Len(m)})
    /\ AnchorCandidates(Anchors(html), page_url) # << >>
    /\ _extract_jsonld_links(html, page_url) # << >>

\* u and v are the same URL up to trailing slashes
SameButTrailingSlash(u, v) ==
    LET extends(long, short) ==
            /\ Len(long) >= Len(short)
            /\ SubSeq(long, 1, Len(short)) = short
            /\ \A i \in (Len(short) + 1)..Len(long) : long[i] = "/"
    IN  extends(u, v) \/ extends(v, u)

JsonLdSet ==
    LET links == _extract_jsonld_links(html, page_url)
    IN  {links[i] : i \in 1..Len(links)}

\* C7: the page is flagged as a single product page exactly when the
\* distinct structured-data URLs are one URL equal to the page URL up to a
\* trailing slash and the merged, deduplicated candidates, before the cap,
\* are fewer than 2; with 2 or more candidates the flag is false.
C7_SingleProductFlag ==
    pc = "discovered" =>
        LET m == Merged
            candidates == Cardinality({m[i] : i \in 1..Len(m)})
            jsonld == JsonLdSet
        IN  /\ is_product_page <=>
                   /\ Cardinality(jsonld) = 1
                   /\ \A u \in jsonld : SameButTrailingSlash(u, page_url)
                   /\ candidates < 2
            /\ candidates >= 2 => ~is_product_page

\* a page with anchors whose one structured-data URL is the page URL with
\* the other trailing slash has been flagged
C7_Witness ==
    /\ pc = "discovered"
    /\ is_product_page
    /\ html.anchors # << >>
    /\ page_url \notin JsonLdSet
    /\ Len(product_links) = 1

\* every anchor of the page points to a host other than the page's
AllAnchorsOffDomain ==
    \A i \in 1..Len(html.anchors) :
        Netloc(urljoin(page_url, html.anchors[i].href)) # Netloc(page_url)

\* C8: when all anchors of the page point to a host other than the page
\* URL's host, the list returned has no URL of a host other than the page
\* URL's.
C8_NoCrossDomain ==
    (pc = "discovered" /\ AllAnchorsOffDomain) =>
        \A i \in 1..Len(product_links) : Netloc(product_links[i]) = Netloc(page_url)

(***************************************************************************)
(* C1, C2, C3: the run                                                     *)
(***************************************************************************)
\* C1: with a limit >= 0 the product pages fetched after the seed fetch are
\* at most min(limit, number of candidate links), and the records returned
\* and written to the spreadsheet are at most limit.
C1_LimitRespected ==
    /\ Len(fetched) <= Min(limit, Len(product_links))
    /\ Len(products) <= limit
    /\ ~IsNone(saved) => Len(Val(saved)) <= limit

\* the loop has been left for the save stage
LoopLeft == total = Min(limit, Len(product_links)) /\ idx_raw > 0
            /\ pc \in {"save", "writing", "written"}

\* C2: an error raised by the fetch or extraction of a candidate link is
\* caught and logged as a warning and does not abort the run: the records
\* collected so far are kept, the loop goes on to the next link, every
\* candidate link has been attempted when the loop is left (unless the
\* records reached limit), and unless the user interrupts it the run goes
\* on to the table write.
C2_ErrorDoesNotAbort ==
    /\ [][errors' > errors =>
              /\ warnings' = warnings + 1
              /\ products' = products
              /\ exit_code' = None
              /\ IF idx_raw < Len(product_links)
                 THEN pc' = "harvest" /\ idx_raw' = idx_raw + 1
                 ELSE pc' = "save"]_vars
    /\ [](LoopLeft => (fetched = product_links \/ Len(products) >= limit))
    /\ [](warnings = errors)
    /\ (errors > 0) ~> (writer # "idle" \/ interrupt_at # "")

\* a link failed, a later link gave a record, and the records were saved
C2_Witness ==
    /\ errors = 1
    /\ warnings = 1
    /\ Len(fetched) = 3
    /\ writer = "done"
    /\ ~IsNone(saved)
    /\ Len(Val(saved)) = 2
    /\ Val(saved)[2].url = fetched[3]

\* C3: a run interrupted before the save stage, or whose seed fetch fails,
\* ends without the table writer being invoked and main returns non-zero:
\* 130 for the interrupt, 1 for any other failure; main returns 0 only
\* after the table writer has completed.
C3_NoSaveWhenAborted ==
    /\ interrupt_at \in {"start", "harvest", "save"} =>
           /\ writer = "idle" /\ IsNone(saved)
           /\ exit_code = Some(130)
    /\ (pc = "exit" /\ final_url = << >> /\ interrupt_at = "") =>
           /\ writer = "idle" /\ IsNone(saved)
           /\ exit_code = Some(1)
    /\ (pc = "exit" /\ interrupt_at = "" /\ writer # "done") => exit_code = Some(1)
    /\ interrupt_at # "" => exit_code = Some(130)
    /\ exit_code = Some(0) => (writer = "done" /\ saved = Some(products))
    /\ pc = "exit" <=> ~IsNone(exit_code)

\* the user interrupted the loop after records had been collected
C3_Witness ==
    /\ pc = "exit"
    /\ interrupt_at = "harvest"
    /\ Len(products) >= 1
    /\ exit_code = Some(130)
    /\ writer = "idle"

(***************************************************************************)
(* C11, C12: the table writer                                              *)
(***************************************************************************)
\* the sheet the completed call started from, and the sheet it saved
SheetBefore == Val(opened).ws
SheetAfter == Val(files[out_path])

\* the last row of the starting sheet that has a cell, 0 when it has none
LastExistingRow ==
    IF DOMAIN SheetBefore = {} THEN 0 ELSE Max({k[1] : k \in DOMAIN SheetBefore})

\* the sheet holds no value at all
EntirelyEmpty(ws) == \A k \in DOMAIN ws : IsNone(ws[k])

\* the call changed row 1, which no record is written to
HeaderWritten ==
    \E c \in 1..5 : cell_value(SheetAfter, 1, c) # cell_value(SheetBefore, 1, c)

\* C11: after a completed call of write_products_to_excel, whatever sheet it
\* started from (a blank workbook or a loaded template with prior rows) and
\* whatever the records: every cell that held a value before the call holds
\* the same value; the header row has been written only if the starting sheet
\* was entirely empty, and is then the titles; the k-th record is in row
\* (last existing row, or 1 when the header was just written) + k, which is
\* strictly after the last existing row; and no other cell has changed.
C11_AppendsAfterExisting ==
    writer = "done" =>
        LET before == SheetBefore
            after == SheetAfter
            last == LastExistingRow
            base == IF HeaderWritten THEN 1 ELSE last
            titles == HeadersOrDefault(headers)
            recordRows == (base + 1)..(base + Len(products))
        IN  /\ \A k \in DOMAIN before :
                  ~IsNone(before[k]) => k \in DOMAIN after /\ after[k] = before[k]
            /\ HeaderWritten =>
                  /\ EntirelyEmpty(before)
                  /\ \A c \in 1..Len(titles) :
                        cell_value(after, 1, c) = Some(titles[c])
            /\ \A k \in 1..Len(products) :
                  /\ base + k > last
                  /\ cell_value(after, base + k, 1) = Some(products[k].name)
                  /\ cell_value(after, base + k, 2) = products[k].price
                  /\ cell_value(after, base + k, 3) = Some(products[k].url)
                  /\ cell_value(after, base + k, 4) = products[k].image_url
                  /\ cell_value(after, base + k, 5) = products[k].description
            /\ \A k \in DOMAIN after :
                  (k[1] \notin recordRows /\ ~(HeaderWritten /\ k[1] = 1)) =>
                      k \in DOMAIN before /\ after[k] = before[k]

\* two records were appended to a template whose last row held a value, and
\* are in the two rows after it
C11_Witness ==
    /\ writer = "done"
    /\ template_path = Some(TemplateFile)
    /\ out_path = OutFile
    /\ ~Val(opened).is_new
    /\ LastExistingRow = 2
    /\ \E c \in 1..2 : ~IsNone(cell_value(SheetBefore, 2, c))
    /\ Len(products) = 2
    /\ products[1] # products[2]
    /\ cell_value(SheetAfter, 3, 1) = Some(products[1].name)
    /\ cell_value(SheetAfter, 4, 2) = products[2].price

\* C12: after a completed call of write_products_to_excel with an output
\* path and a template path, the workbook with the records is in the file at
\* the output path, and the file at the template path is what it was before
\* the call (the call opened it when is_new_file is false): the writer has
\* not written to the template path.
C12_TemplateLeftUnchanged ==
    (writer = "done" /\ ~IsNone(template_path)) =>
        /\ ~IsNone(files[out_path])
        /\ \A k \in 1..Len(products) :
              \E r \in 1..(max_row(SheetAfter)) :
                  /\ cell_value(SheetAfter, r, 1) = Some(products[k].name)
                  /\ cell_value(SheetAfter, r, 3) = Some(products[k].url)
        /\ ~Val(opened).is_new =>
              files[Val(template_path)] = Some(Val(opened).ws)

====
